---- MODULE Spec2Model ----
(***************************************************************************)
(* Parameter handling of Peclet (source/peclet_parameters.h): declare<dim>, *)
(* read_meta_parameters and read<dim>, together with the behaviour of the  *)
(* dealii::ParameterHandler and dealii::Patterns calls they make.           *)
(*                                                                         *)
(* Text is a sequence of symbols.  A symbol is one character where the     *)
(* character matters to the code (digits, ".", ",", " ", "-", "+", "e",    *)
(* "|", "=", "#", "{", ";") and a whole word otherwise ("hyper_cube",      *)
(* "true", "Function expression"): words are only ever compared.           *)
(***************************************************************************)
EXTENDS Integers, Sequences, FiniteSets, TLC

VARIABLES
    dim,        \* the template argument <dim> the application is built with
    ndebug,     \* TRUE when the build defines NDEBUG (assert() compiled out)
    call,       \* the running call: [routine, parameter_file]
    pc,         \* position inside the running call
    prm,        \* the call's ParameterHandler
    status,     \* what prm.read_input returned ("none" when it was not called)
    lineno,     \* number of lines of the parameter file scanned so far
    file_ok,    \* conjunction of scan_line's results so far (read_input's status)
    parameter_log_file, \* the std::ofstream of read<dim>: "unopened", "good", "failed"
    saved_echo, \* used_parameters.prm on disk: whether it exists, and its lines
    params,     \* the local StructuredParameters / Meta being filled
    functions,  \* the three ParsedFunction handles passed by reference
    trace,      \* the ParameterHandler calls made by the routine so far
    ret,        \* the value handed to the caller, or NoRecord
    last        \* the record the previous call returned (kept for a re-read of the echo)

vars == <<dim, ndebug, call, pc, prm, status, lineno, file_ok, parameter_log_file,
          saved_echo, params, functions, trace, ret, last>>

----------------------------------------------------------------------------
(* Text helpers: std::string operations used by Patterns and scan_line.     *)

Digits == {"0", "1", "2", "3", "4", "5", "6", "7", "8", "9"}

DigitVal(c) ==
    CASE c = "0" -> 0 [] c = "1" -> 1 [] c = "2" -> 2 [] c = "3" -> 3
      [] c = "4" -> 4 [] c = "5" -> 5 [] c = "6" -> 6 [] c = "7" -> 7
      [] c = "8" -> 8 [] c = "9" -> 9

RECURSIVE TrimLeft(_)
TrimLeft(t) ==
    IF t # <<>> /\ Head(t) = " " THEN TrimLeft(Tail(t)) ELSE t

RECURSIVE TrimRight(_)
TrimRight(t) ==
    IF t # <<>> /\ t[Len(t)] = " " THEN TrimRight(SubSeq(t, 1, Len(t) - 1)) ELSE t

\* Utilities::trim
Trim(t) == TrimRight(TrimLeft(t))

\* std::string::find of a one-symbol needle: the first position, 0 for npos
Find(t, c) ==
    IF \E i \in 1..Len(t) : t[i] = c
    THEN CHOOSE i \in 1..Len(t) : t[i] = c /\ \A j \in 1..(i - 1) : t[j] # c
    ELSE 0

\* the text after position i
From(t, i) == SubSeq(t, i, Len(t))

----------------------------------------------------------------------------
(* Numbers.                                                                 *)

MaxInt == 2147483647
MinInt == -MaxInt - 1

\* The digits at the start of t, accumulated as a non-positive int the way
\* an int accumulates them; ok is FALSE once the value leaves the int range.
RECURSIVE ScanDigits(_, _, _, _)
ScanDigits(t, acc, n, ok) ==
    IF t = <<>> \/ Head(t) \notin Digits
    THEN [neg |-> acc, count |-> n, ok |-> ok, rest |-> t]
    ELSE LET d == DigitVal(Head(t))
             fits == ok /\ acc >= (MinInt + d + 9) \div 10
         IN  ScanDigits(Tail(t), IF fits THEN acc * 10 - d ELSE acc, n + 1, fits)

\* the sign in front of a number, "" when there is none
SignOf(s) == IF s # <<>> /\ Head(s) \in {"-", "+"} THEN Head(s) ELSE ""

Unsigned(s) == IF SignOf(s) = "" THEN s ELSE Tail(s)

IntResult(sgn, d) ==
    IF d.count > 0 /\ d.ok /\ (sgn = "-" \/ d.neg > MinInt)
    THEN [ok |-> TRUE, v |-> IF sgn = "-" THEN d.neg ELSE -d.neg, rest |-> d.rest]
    ELSE [ok |-> FALSE, v |-> 0, rest |-> d.rest]

IntAfterBlanks(s) == IntResult(SignOf(s), ScanDigits(Unsigned(s), 0, 0, TRUE))

\* operator>>(istream&, int&) / strtol on text t: leading blanks, a sign,
\* digits.  [ok, v, rest]
ScanInt(t) == IntAfterBlanks(TrimLeft(t))

\* A double is kept as the decimal it denotes, m * 10^e, with m free of
\* trailing zeros (0 is [m |-> 0, e |-> 0]).
RECURSIVE Normal(_, _)
Normal(m, e) ==
    IF m = 0 THEN [m |-> 0, e |-> 0]
    ELSE IF m % 10 = 0 THEN Normal(m \div 10, e + 1)
    ELSE [m |-> m, e |-> e]

\* the exponent part: "e", then an int with no blank before it
ExponentAt(rest) ==
    IF Len(rest) >= 2 /\ rest[1] \in {"e", "E"} /\ rest[2] # " "
    THEN ScanInt(Tail(rest))
    ELSE [ok |-> FALSE, v |-> 0, rest |-> rest]

DoubleResult(sgn, digits, fp, ex) ==
    IF digits > 0 /\ fp.ok
    THEN [ok |-> TRUE,
          d |-> Normal(IF sgn = "-" THEN fp.neg ELSE -fp.neg,
                       (IF ex.ok THEN ex.v ELSE 0) - fp.count),
          rest |-> IF ex.ok THEN ex.rest ELSE fp.rest]
    ELSE [ok |-> FALSE, d |-> [m |-> 0, e |-> 0], rest |-> fp.rest]

\* the digits after the "." continue the accumulation of those before it
FractionAt(ip) ==
    IF ip.rest # <<>> /\ Head(ip.rest) = "."
    THEN ScanDigits(Tail(ip.rest), ip.neg, 0, ip.ok)
    ELSE [neg |-> ip.neg, count |-> 0, ok |-> ip.ok, rest |-> ip.rest]

DoubleFraction(sgn, ip, fp) == DoubleResult(sgn, ip.count + fp.count, fp, ExponentAt(fp.rest))

DoubleMantissa(sgn, ip) == DoubleFraction(sgn, ip, FractionAt(ip))

DoubleAfterBlanks(s) == DoubleMantissa(SignOf(s), ScanDigits(Unsigned(s), 0, 0, TRUE))

\* operator>>(istream&, double&) / strtod on text t: blanks, sign, digits,
\* "." digits, "e" sign digits.  [ok, d, rest]
ScanDouble(t) == DoubleAfterBlanks(TrimLeft(t))

\* has_only_whitespace
OnlyBlanks(t) == \A i \in 1..Len(t) : t[i] = " "

\* the two 16-bit halves of a value below 2^32 given as 2^31 * top + y
Halves(top, y) == [hi |-> 32768 * top + y \div 65536, lo |-> y % 65536]

\* conversion long -> unsigned int (32 bit): the value modulo 2^32
ToUnsigned(v) == IF v >= 0 THEN Halves(0, v) ELSE Halves(1, (v + MaxInt) + 1)

\* conversion long -> double of an int-range value
ToDouble(v) == Normal(v, 0)

----------------------------------------------------------------------------
(* dealii::Patterns, as constructed in declare<dim>.                        *)

\* The Selection constructor removes the blanks around every "|".
RECURSIVE StripBars(_)
StripBars(seq) ==
    IF \E i \in 1..(Len(seq) - 1) : seq[i] = " " /\ seq[i + 1] = "|"
    THEN LET i == CHOOSE k \in 1..(Len(seq) - 1) : seq[k] = " " /\ seq[k + 1] = "|"
         IN  StripBars(SubSeq(seq, 1, i - 1) \o From(seq, i + 1))
    ELSE IF \E i \in 1..(Len(seq) - 1) : seq[i] = "|" /\ seq[i + 1] = " "
    THEN LET i == CHOOSE k \in 1..(Len(seq) - 1) : seq[k] = "|" /\ seq[k + 1] = " "
         IN  StripBars(SubSeq(seq, 1, i) \o From(seq, i + 2))
    ELSE seq

Integer(lo, hi) == [kind |-> "Integer", lower_bound |-> lo, upper_bound |-> hi]
Double(bounded) == [kind |-> "Double", bounded_below_by_zero |-> bounded]
Selection(seq)  == [kind |-> "Selection", sequence |-> StripBars(seq)]
List(base)      == [kind |-> "List", pattern |-> base,
                    min_elements |-> 0, max_elements |-> MaxInt]
Bool            == [kind |-> "Bool"]
Anything        == [kind |-> "Anything"]

IntegerInRange(p, r) ==
    /\ r.ok
    /\ OnlyBlanks(r.rest)
    /\ (p.lower_bound <= p.upper_bound
          => p.lower_bound <= r.v /\ r.v <= p.upper_bound)

\* Patterns::Integer::match
IntegerMatch(p, t) == IntegerInRange(p, ScanInt(t))

DoubleInRange(p, r) ==
    /\ r.ok
    /\ OnlyBlanks(r.rest)
    /\ (p.bounded_below_by_zero => r.d.m >= 0)

\* Patterns::Double::match (the only bound declare<dim> uses is 0.)
DoubleMatch(p, t) == DoubleInRange(p, ScanDouble(t))

\* Patterns::Selection::match: the text equals one of the "|"-separated options
RECURSIVE SelectionMatch(_, _)
SelectionMatch(sequence, t) ==
    IF Find(sequence, "|") = 0 THEN t = sequence
    ELSE t = SubSeq(sequence, 1, Find(sequence, "|") - 1)
         \/ SelectionMatch(From(sequence, Find(sequence, "|") + 1), t)

\* The split of Patterns::List::match: cut at each ",", trim each piece; a
\* text that is empty, or empty after the last ",", yields no further piece.
RECURSIVE SplitList(_)
SplitList(t) ==
    IF t = <<>> THEN <<>>
    ELSE IF Find(t, ",") = 0 THEN <<Trim(t)>>
    ELSE <<Trim(SubSeq(t, 1, Find(t, ",") - 1))>> \o SplitList(From(t, Find(t, ",") + 1))

MatchBase(p, t) ==
    CASE p.kind = "Integer"   -> IntegerMatch(p, t)
      [] p.kind = "Double"    -> DoubleMatch(p, t)
      [] p.kind = "Selection" -> SelectionMatch(p.sequence, t)
      [] p.kind = "Bool"      -> SelectionMatch(<<"true", "|", "false">>, t)
      [] p.kind = "Anything"  -> TRUE

ListMatch(p, parts) ==
    /\ Len(parts) >= p.min_elements
    /\ Len(parts) <= p.max_elements
    /\ \A i \in 1..Len(parts) : MatchBase(p.pattern, parts[i])

\* PatternBase::match
Match(p, t) ==
    IF p.kind = "List" THEN ListMatch(p, SplitList(t)) ELSE MatchBase(p, t)

----------------------------------------------------------------------------
(* dealii::ParameterHandler.  entries and sections keep declaration order.  *)

NewHandler == [entries |-> <<>>, sections |-> <<>>, subsection_path |-> <<>>]

\* position of the entry `name` of section `path`, 0 when it is not declared
Lookup(h, path, name) ==
    IF \E i \in 1..Len(h.entries) :
           h.entries[i].path = path /\ h.entries[i].name = name
    THEN CHOOSE i \in 1..Len(h.entries) :
           h.entries[i].path = path /\ h.entries[i].name = name
    ELSE 0

SectionExists(h, path) == \E i \in 1..Len(h.sections) : h.sections[i] = path

EnterPath(h, full) ==
    [h EXCEPT !.subsection_path = full,
              !.sections = IF SectionExists(h, full) THEN @ ELSE Append(@, full)]

\* ParameterHandler::enter_subsection: creates the section when it is new
enter_subsection(h, name) == EnterPath(h, Append(h.subsection_path, name))

\* ParameterHandler::leave_subsection (the caller checks the path is not empty)
leave_subsection(h) ==
    [h EXCEPT !.subsection_path = SubSeq(@, 1, Len(@) - 1)]

PutEntry(h, i, e) ==
    [h EXCEPT !.entries = IF i = 0 THEN Append(@, e) ELSE [@ EXCEPT ![i] = e]]

\* ParameterHandler::declare_entry: the default becomes the value
declare_entry(h, name, default, pattern, doc) ==
    PutEntry(h, Lookup(h, h.subsection_path, name),
             [path |-> h.subsection_path, name |-> name, value |-> default,
              default_value |-> default, pattern |-> pattern, documentation |-> doc])

\* "subsection <name>": the section must exist below the current one
ScanSubsection(h, subsection) ==
    IF Len(subsection) = 1 /\ SectionExists(h, Append(h.subsection_path, subsection[1]))
    THEN [h |-> [h EXCEPT !.subsection_path = Append(@, subsection[1])], ok |-> TRUE]
    ELSE [h |-> h, ok |-> FALSE]

\* "end": nothing may follow it, and there must be a section to leave
ScanEnd(h, after) ==
    IF TrimLeft(after) # <<>> \/ h.subsection_path = <<>>
    THEN [h |-> h, ok |-> FALSE]
    ELSE [h |-> leave_subsection(h), ok |-> TRUE]

\* The entry is declared (i # 0): its value must match the pattern, unless
\* it holds "{": such a value is taken for a multiple-loop entry and is
\* stored without being matched.
ScanValue(h, i, entry_value) ==
    IF i = 0 THEN [h |-> h, ok |-> FALSE]
    ELSE IF Find(entry_value, "{") = 0 /\ ~Match(h.entries[i].pattern, entry_value)
    THEN [h |-> h, ok |-> FALSE]
    ELSE [h |-> [h EXCEPT !.entries[i].value = entry_value], ok |-> TRUE]

ScanEntry(h, entry_name, entry_value) ==
    ScanValue(h,
              IF Len(entry_name) # 1 THEN 0
              ELSE Lookup(h, h.subsection_path, entry_name[1]),
              entry_value)

\* "set <name> = <value>"
ScanSet(h, rest, eq) ==
    IF eq = 0 THEN [h |-> h, ok |-> FALSE]
    ELSE ScanEntry(h, Trim(SubSeq(rest, 1, eq - 1)), Trim(From(rest, eq + 1)))

ScanStatement(h, line) ==
    IF line = <<>> THEN [h |-> h, ok |-> TRUE]
    ELSE IF Head(line) \in {"subsection", "SUBSECTION"} /\ Len(line) >= 2 /\ line[2] = " "
    THEN ScanSubsection(h, From(line, 3))
    ELSE IF Head(line) \in {"end", "END"}
    THEN ScanEnd(h, Tail(line))
    ELSE IF Head(line) \in {"set", "SET"} /\ Len(line) >= 2 /\ line[2] = " "
    THEN ScanSet(h, From(line, 3), Find(From(line, 3), "="))
    ELSE [h |-> h, ok |-> FALSE]

\* the line up to its comment
Uncommented(line) ==
    IF Find(line, "#") = 0 THEN line ELSE SubSeq(line, 1, Find(line, "#") - 1)

\* ParameterHandler::scan_line: one line of a parameter file.  [h, ok]
scan_line(h, input_line) == ScanStatement(h, Trim(Uncommented(input_line)))

\* The end of ParameterHandler::read_input(std::istream&): an unbalanced
\* file is reported, and the path restored, only when no line failed.
read_input_end(h, ok) ==
    IF ok /\ h.subsection_path # <<>>
    THEN [h |-> [h EXCEPT !.subsection_path = <<>>], status |-> FALSE]
    ELSE [h |-> h, status |-> ok]

----------------------------------------------------------------------------
(* The data structures: struct Meta ... struct StructuredParameters.        *)

\* the type of every member of a StructuredParameters object, by member path
FieldType ==
    (<<"meta", "dim">> :> "unsigned") @@
    (<<"initial_values", "function_name">> :> "string") @@
    (<<"geometry", "dim">> :> "unsigned") @@
    (<<"geometry", "grid_name">> :> "string") @@
    (<<"geometry", "sizes">> :> "vector_double") @@
    (<<"geometry", "transformations">> :> "vector_double") @@
    (<<"refinement", "initial_global_cycles">> :> "unsigned") @@
    (<<"refinement", "initial_boundary_cycles">> :> "unsigned") @@
    (<<"refinement", "boundaries_to_refine">> :> "vector_unsigned") @@
    (<<"refinement", "adaptive", "initial_cycles">> :> "unsigned") @@
    (<<"refinement", "adaptive", "max_level">> :> "unsigned") @@
    (<<"refinement", "adaptive", "max_cells">> :> "unsigned") @@
    (<<"refinement", "adaptive", "interval">> :> "unsigned") @@
    (<<"refinement", "adaptive", "cycles_at_interval">> :> "unsigned") @@
    (<<"refinement", "adaptive", "refine_fraction">> :> "double") @@
    (<<"refinement", "adaptive", "coarsen_fraction">> :> "double") @@
    (<<"time", "end_time">> :> "double") @@
    (<<"time", "step_size">> :> "double") @@
    (<<"time", "global_refinement_levels">> :> "double") @@
    (<<"solver", "method">> :> "string") @@
    (<<"solver", "max_iterations">> :> "unsigned") @@
    (<<"solver", "tolerance">> :> "double") @@
    (<<"solver", "normalize_tolerance">> :> "bool") @@
    (<<"output", "write_solution_vtk">> :> "bool") @@
    (<<"output", "write_solution_table">> :> "bool") @@
    (<<"output", "time_step_interval">> :> "int") @@
    (<<"verification", "enabled">> :> "bool")

\* the type of every member of a Meta object
MetaFieldType == (<<"dim">> :> "unsigned")

TypeOf(field) ==
    IF field \in DOMAIN FieldType THEN FieldType[field] ELSE MetaFieldType[field]

\* `StructuredParameters params;` / `Meta mp;`: strings and vectors are
\* default-constructed empty; a scalar is left uninitialized (init is FALSE
\* and v stands for whatever the memory holds).
Uninitialized(types) ==
    [f \in DOMAIN types |->
        CASE types[f] \in {"string", "vector_double", "vector_unsigned"} ->
                [init |-> TRUE, v |-> <<>>]
          [] types[f] = "unsigned" -> [init |-> FALSE, v |-> ToUnsigned(0)]
          [] types[f] = "int"      -> [init |-> FALSE, v |-> 0]
          [] types[f] = "double"   -> [init |-> FALSE, v |-> ToDouble(0)]
          [] types[f] = "bool"     -> [init |-> FALSE, v |-> FALSE]]

\* What reading an uninitialized unsigned int may yield.
Garbage == {ToUnsigned(1), ToUnsigned(-1)}

----------------------------------------------------------------------------
(* The getters, and the conversion of their result to the member assigned.  *)

\* get_integer: strtol, then AssertThrow(*endptr == '\0').  When nothing
\* converts, endptr is the start of the text and the value is 0.
IntegerGot(t, r) ==
    IF r.ok THEN [ok |-> r.rest = <<>>, v |-> r.v] ELSE [ok |-> t = <<>>, v |-> 0]

\* get_double: strtod, then the same check
DoubleGot(t, r) ==
    IF r.ok THEN [ok |-> r.rest = <<>>, v |-> r.d] ELSE [ok |-> t = <<>>, v |-> ToDouble(0)]

\* an element of a vector converts when the whole piece is a number
ElementGot(r, v) == [ok |-> r.ok /\ r.rest = <<>>, v |-> v]

DoubleElement(r) == ElementGot(r, r.d)

\* get_vector<double>: every piece of the split is converted to a double
DoublesOf(parts) == [i \in 1..Len(parts) |-> DoubleElement(ScanDouble(parts[i]))]

\* get_vector<unsigned int>: every piece is converted to an unsigned int
UnsignedElement(r) == ElementGot(r, ToUnsigned(r.v))

UnsignedsOf(parts) == [i \in 1..Len(parts) |-> UnsignedElement(ScanInt(parts[i]))]

VectorGot(rs) ==
    [ok |-> \A i \in 1..Len(rs) : rs[i].ok, v |-> [i \in 1..Len(rs) |-> rs[i].v]]

\* ParameterHandler::get, get_integer, get_double, get_bool on a stored
\* text, and MyParameterHandler::get_vector<T>.  [ok, v]
GetterResult(getter, t) ==
    CASE getter = "get" -> [ok |-> TRUE, v |-> t]
      [] getter = "get_integer" -> IntegerGot(t, ScanInt(t))
      [] getter = "get_double" -> DoubleGot(t, ScanDouble(t))
      [] getter = "get_bool" ->
            [ok |-> t \in {<<"true">>, <<"yes">>, <<"false">>, <<"no">>},
             v |-> t \in {<<"true">>, <<"yes">>}]
      [] getter = "get_vector_double" -> VectorGot(DoublesOf(SplitList(t)))
      [] getter = "get_vector_unsigned" -> VectorGot(UnsignedsOf(SplitList(t)))

\* the implicit conversion of `member = prm.get_xxx(...)`
Assigned(type, getter, v) ==
    IF getter = "get_integer"
    THEN CASE type = "unsigned" -> ToUnsigned(v)
           [] type = "double"   -> ToDouble(v)
           [] type = "int"      -> v
    ELSE v

----------------------------------------------------------------------------
(* The three routines as the ParameterHandler calls they make, in order.    *)

Enter(name) == [op |-> "enter_subsection", name |-> name]
Leave       == [op |-> "leave_subsection", name |-> ""]
Declare(name, default, pattern, doc) ==
    [op |-> "declare_entry", name |-> name, default |-> default,
     pattern |-> pattern, doc |-> doc]
DeclareParameters(d, n_components) ==
    [op |-> "declare_parameters", name |-> "", dim |-> d, n_components |-> n_components]
Get(getter, name, field) ==
    [op |-> "get", name |-> name, getter |-> getter, field |-> field]
ParseParameters(function) ==
    [op |-> "parse_parameters", name |-> function]

DigitOf(n) == CHOOSE c \in Digits : DigitVal(c) = n

\* std::to_string of a non-negative int
RECURSIVE to_string(_)
to_string(n) ==
    IF n < 10 THEN <<DigitOf(n)>> ELSE Append(to_string(n \div 10), DigitOf(n % 10))

\* the default of "Function expression": "0" for each component, "; " between
RECURSIVE Zeros(_)
Zeros(n) == IF n <= 1 THEN <<"0">> ELSE <<"0", ";", " ">> \o Zeros(n - 1)

\* the default of "Variable names" in ParsedFunction<dim>
VariableNames(d) ==
    CASE d = 1 -> <<"x", ",", "t">>
      [] d = 2 -> <<"x", ",", "y", ",", "t">>
      [] d = 3 -> <<"x", ",", "y", ",", "z", ",", "t">>

GridNames ==
    <<"hyper_rectangle", " ", "|", " ", "hyper_cube", " ", "|", " ", "hyper_shell",
      " ", "|", " ", "hemisphere_cylinder_shell", " ", "|", " ", "cylinder", " ", "|",
      " ", "cylinder_with_split_boundaries", " ", "|", " ",
      "hyper_cube_with_cylindrical_hole">>

\* declare<dim>(prm).  A documentation text is one symbol, its first
\* sentence standing for the whole of it: it is only ever copied to the echo.
DeclareProgram(d) == <<
    Enter("meta"),
      Declare("dim", to_string(d), Integer(1, 3), ""),
    Leave,
    Enter("source_function"),
      DeclareParameters(d, d + 2),
    Leave,
    Enter("geometry"),
      Declare("grid_name", <<"hyper_cube">>, Selection(GridNames),
              "Select the name of the geometry and grid to generate."),
      Declare("sizes", <<"0", ".", ",", " ", "1", ".">>, List(Double(TRUE)),
              "Set the sizes for the grid's geometry."),
      Declare("transformations",
              <<"0", ".", ",", " ", "0", ".", ",", " ", "0", ".">>, List(Double(FALSE)),
              "Set the rigid body transformation vector."),
    Leave,
    Enter("initial_values"),
      Declare("function_name", <<"parsed">>,
              List(Selection(<<"parsed", " ", "|", " ", "interpolate_old_field">>)), ""),
      Enter("parsed_function"),
        DeclareParameters(d, d + 2),
      Leave,
    Leave,
    Enter("refinement"),
      Declare("initial_global_cycles", <<"4">>, Integer(MinInt, MaxInt),
              "Initially globally refine the grid this many times"),
      Declare("initial_boundary_cycles", <<"0">>, Integer(MinInt, MaxInt),
              "Initially refine the grid this many times near the boundaries"),
      Declare("boundaries_to_refine", <<"0">>, List(Integer(MinInt, MaxInt)),
              "Refine cells that contain these boundaries"),
      Enter("adaptive"),
        Declare("initial_cycles", <<"0">>, Integer(MinInt, MaxInt),
                "Refine grid adaptively using an error measure"),
        Declare("interval", <<"0">>, Integer(MinInt, MaxInt),
                "Only refine the grid after every occurence of this many time steps."),
        Declare("max_level", <<"1", "0">>, Integer(MinInt, MaxInt),
                "Max grid refinement level"),
        Declare("max_cells", <<"2", "0", "0", "0">>, Integer(MinInt, MaxInt),
                "Skip grid refinement if the number of active cells already exceeds this"),
        Declare("refine_fraction", <<"0", ".", "3">>, Double(FALSE),
                "Fraction of cells to refine"),
        Declare("coarsen_fraction", <<"0", ".", "3">>, Double(FALSE),
                "Fraction of cells to coarsen"),
        Declare("cycles_at_interval", <<"5">>, Integer(MinInt, MaxInt),
                "Max grid refinement level"),
      Leave,
    Leave,
    Enter("time"),
      Declare("end_time", <<"1", ".">>, Double(TRUE),
              "End the time-dependent simulation once this time is reached."),
      Declare("step_size", <<"0", ".">>, Double(TRUE),
              "End the time-dependent simulation once this time is reached."),
      Declare("global_refinement_levels", <<"4">>, Integer(0, MaxInt),
              "If step_size is set to zero, then compute step_size"),
    Leave,
    Enter("solver"),
      Declare("method", <<"GMRES">>, Selection(<<"GMRES">>), ""),
      Declare("max_iterations", <<"1", "0", "0", "0">>, Integer(0, MaxInt), ""),
      Declare("tolerance", <<"1", "e", "-", "8">>, Double(TRUE), ""),
      Declare("normalize_tolerance", <<"false">>, Bool,
              "If true, then the residual will be multiplied by the L2-norm of the RHS"),
    Leave,
    Enter("output"),
      Declare("write_solution_vtk", <<"true">>, Bool, ""),
      Declare("write_solution_table", <<"false">>, Bool,
              "This allow for simple export of 1D solutions into a table format"),
      Declare("time_step_interval", <<"1">>, Integer(0, MaxInt),
              "Solutions will only be written at every time_step_interval time step."),
    Leave,
    Enter("verification"),
      Declare("enabled", <<"false">>, Bool, ""),
      Enter("exact_solution_function"),
        DeclareParameters(d, d + 2),
      Leave,
    Leave >>

\* read_meta_parameters as it would be, had it declared with the <dim> of the build
DeclareBuildProgram == DeclareProgram(dim)

\* read_meta_parameters instantiates declare<1>, whatever <dim> is
MetaDeclareProgram == DeclareProgram(1)

\* read_meta_parameters after read_input
ReadMetaProgram == <<
    Enter("meta"),
      Get("get_integer", "dim", <<"dim">>),
    Leave >>

\* read<dim> after print_parameters
ReadProgram == <<
    Enter("geometry"),
      Get("get", "grid_name", <<"geometry", "grid_name">>),
      Get("get_vector_double", "sizes", <<"geometry", "sizes">>),
      Get("get_vector_double", "transformations", <<"geometry", "transformations">>),
    Leave,
    Enter("source_function"),
      ParseParameters("source_function"),
    Leave,
    Enter("verification"),
      Get("get_bool", "enabled", <<"verification", "enabled">>),
      Enter("exact_solution_function"),
        ParseParameters("exact_solution_function"),
      Leave,
    Leave,
    Enter("initial_values"),
      Get("get", "function_name", <<"initial_values", "function_name">>),
      Enter("parsed_function"),
        ParseParameters("parsed_initial_values_function"),
      Leave,
    Leave,
    Enter("refinement"),
      Get("get_integer", "initial_global_cycles", <<"refinement", "initial_global_cycles">>),
      Get("get_integer", "initial_boundary_cycles", <<"refinement", "initial_boundary_cycles">>),
      Get("get_vector_unsigned", "boundaries_to_refine", <<"refinement", "boundaries_to_refine">>),
      Enter("adaptive"),
        Get("get_integer", "initial_cycles", <<"refinement", "adaptive", "initial_cycles">>),
        Get("get_integer", "max_level", <<"refinement", "adaptive", "max_level">>),
        Get("get_integer", "max_cells", <<"refinement", "adaptive", "max_cells">>),
        Get("get_integer", "interval", <<"refinement", "adaptive", "interval">>),
        Get("get_integer", "cycles_at_interval", <<"refinement", "adaptive", "cycles_at_interval">>),
        Get("get_double", "refine_fraction", <<"refinement", "adaptive", "refine_fraction">>),
        Get("get_double", "coarsen_fraction", <<"refinement", "adaptive", "coarsen_fraction">>),
      Leave,
    Leave,
    Enter("time"),
      Get("get_double", "end_time", <<"time", "end_time">>),
      Get("get_double", "step_size", <<"time", "step_size">>),
      Get("get_integer", "global_refinement_levels", <<"time", "global_refinement_levels">>),
    Leave,
    Enter("solver"),
      Get("get", "method", <<"solver", "method">>),
      Get("get_integer", "max_iterations", <<"solver", "max_iterations">>),
      Get("get_double", "tolerance", <<"solver", "tolerance">>),
      Get("get_bool", "normalize_tolerance", <<"solver", "normalize_tolerance">>),
    Leave,
    Enter("output"),
      Get("get_bool", "write_solution_vtk", <<"output", "write_solution_vtk">>),
      Get("get_bool", "write_solution_table", <<"output", "write_solution_table">>),
      Get("get_integer", "time_step_interval", <<"output", "time_step_interval">>),
    Leave >>

----------------------------------------------------------------------------
(* Running a routine's calls against the ParameterHandler.                  *)

Unparsed == [variables |-> <<>>, expression |-> <<>>, constants |-> <<>>]

Handles == {"source_function", "exact_solution_function",
            "parsed_initial_values_function"}

StoredAt(h, i) ==
    [declared |-> i # 0, text |-> IF i = 0 THEN <<>> ELSE h.entries[i].value]

\* text of entry `name` of the current section; declared says whether it exists
Stored(h, name) == StoredAt(h, Lookup(h, h.subsection_path, name))

\* Functions::ParsedFunction<dim>::declare_parameters(prm, n_components)
declare_parameters(h, d, n_components) ==
    declare_entry(
      declare_entry(
        declare_entry(h, "Variable names", VariableNames(d), Anything,
                      "The name of the variables as they will be used in the function"),
        "Function expression", Zeros(n_components), Anything,
        "Separate vector valued expressions by ';'"),
      "Function constants", <<>>, Anything,
      "Any constant used inside the function")

\* The state of a running routine is [prm, params, functions, trace, fault,
\* ndebug]; a fault (a deal.II exception or assertion) ends the routine.
\* Every call is recorded with the path it is made at.
Seen(ins, st) ==
    [st EXCEPT !.trace = Append(@, [op |-> ins.op, name |-> ins.name,
                                    path |-> st.prm.subsection_path])]

ExecLeave(st) ==
    IF st.prm.subsection_path = <<>>
    THEN [st EXCEPT !.fault = "ExcAlreadyAtTopLevel"]
    ELSE [st EXCEPT !.prm = leave_subsection(@)]

ExecDeclare(ins, st) ==
    [st EXCEPT
       !.prm = declare_entry(@, ins.name, ins.default, ins.pattern, ins.doc),
       !.fault = IF Match(ins.pattern, ins.default) THEN "none"
                 ELSE "ExcValueDoesNotMatchPattern"]

\* member = prm.get_xxx(name), r being what the getter made of the text
ExecAssign(ins, st, r) ==
    IF ~r.ok THEN [st EXCEPT !.fault = "ExcConversionError"]
    ELSE [st EXCEPT !.params[ins.field] =
             [init |-> TRUE, v |-> Assigned(TypeOf(ins.field), ins.getter, r.v)]]

\* ParameterHandler::get of an undeclared entry: Assert(false,
\* ExcEntryUndeclared) in a debug build, the empty string otherwise
ExecGet(ins, st, s) ==
    IF ~s.declared /\ ~st.ndebug THEN [st EXCEPT !.fault = "ExcEntryUndeclared"]
    ELSE ExecAssign(ins, st, GetterResult(ins.getter, s.text))

\* Functions::ParsedFunction<dim>::parse_parameters(prm): without its
\* entries there is no expression to initialize the function with
ExecParse(ins, st, vn, fc, fe) ==
    IF ~(vn.declared /\ fc.declared /\ fe.declared)
    THEN [st EXCEPT !.fault = "ExcEntryUndeclared"]
    ELSE [st EXCEPT !.functions[ins.name] =
             [variables |-> vn.text, expression |-> fe.text, constants |-> fc.text]]

Step(ins, st) ==
    CASE ins.op = "enter_subsection" ->
            [st EXCEPT !.prm = enter_subsection(@, ins.name)]
      [] ins.op = "leave_subsection" -> ExecLeave(st)
      [] ins.op = "declare_entry" -> ExecDeclare(ins, st)
      [] ins.op = "declare_parameters" ->
            [st EXCEPT !.prm = declare_parameters(@, ins.dim, ins.n_components)]
      [] ins.op = "get" -> ExecGet(ins, st, Stored(st.prm, ins.name))
      [] ins.op = "parse_parameters" ->
            ExecParse(ins, st, Stored(st.prm, "Variable names"),
                      Stored(st.prm, "Function constants"),
                      Stored(st.prm, "Function expression"))

\* one call of a routine
Exec(ins, st) == Step(ins, Seen(ins, st))

RECURSIVE RunFrom(_, _, _)
RunFrom(prog, i, st) ==
    IF i > Len(prog) \/ st.fault # "none" THEN st
    ELSE RunFrom(prog, i + 1, Exec(prog[i], st))

Run(prog, st) == RunFrom(prog, 1, st)

----------------------------------------------------------------------------
(* Reading a whole file, and writing the echo.                              *)

\* the loop of ParameterHandler::read_input over the lines of a stream
RECURSIVE ScanAll(_, _, _, _)
ScanNext(r, lines, i, ok) ==
    IF r.ok THEN ScanAll(r.h, lines, i + 1, ok) ELSE ScanAll(r.h, lines, i + 1, FALSE)

ScanAll(h, lines, i, ok) ==
    IF i > Len(lines) THEN read_input_end(h, ok)
    ELSE ScanNext(scan_line(h, lines[i]), lines, i, ok)

RECURSIVE Flatten(_)
Flatten(ss) == IF ss = <<>> THEN <<>> ELSE Head(ss) \o Flatten(Tail(ss))

Spaces(n) == [i \in 1..n |-> " "]

\* ParameterHandler::print_parameters_section, style Text: the entries of
\* the section, each after its documentation, then its subsections.  (The
\* order of the entries within a section makes no difference to a reader.)
RECURSIVE print_parameters_section(_, _)
print_parameters_section(h, path) ==
    LET indent == Spaces(2 * Len(path))
        InSection(e) == e.path = path
        IsChild(p) == Len(p) = Len(path) + 1 /\ SubSeq(p, 1, Len(path)) = path
        es   == SelectSeq(h.entries, InSection)
        kids == SelectSeq(h.sections, IsChild)
        EntryLines(e) ==
            (IF e.documentation = "" THEN <<>>
             ELSE <<indent \o <<"#", " ", e.documentation>>>>)
            \o <<indent \o <<"set", " ", e.name, " ", " ", "=", " ">> \o e.value
                 \o (IF e.value = e.default_value THEN <<>>
                     ELSE <<" ", " ", "#", " ", "default", ":", " ">> \o e.default_value)>>
        SectionLines(p) ==
            <<indent \o <<"subsection", " ", p[Len(p)]>>>>
            \o print_parameters_section(h, p)
            \o <<indent \o <<"end">>, <<>>>>
    IN  Flatten([i \in 1..Len(es) |-> EntryLines(es[i])])
        \o Flatten([k \in 1..Len(kids) |-> SectionLines(kids[k])])

\* ParameterHandler::print_parameters(out, Text) on a good stream
print_parameters(h) ==
    <<<<"#", " ", "Listing of Parameters">>, <<"#", " ", "---------------------">>>>
    \o print_parameters_section(h, <<>>)

\* the echo as it would go, had print_parameters not checked its stream
EchoUnchecked(good, nd) ==
    IF good \/ nd THEN "echoed" ELSE "aborted"

\* std::ofstream parameter_log_file("used_parameters.prm");
\* assert(parameter_log_file.good());
\* prm.print_parameters(parameter_log_file, ParameterHandler::Text);
\* print_parameters starts with AssertThrow(out, ExcIO()).
EchoOutcome(good, nd) ==
    IF good THEN "echoed"
    ELSE IF ~nd THEN "aborted"
    ELSE "threw"

----------------------------------------------------------------------------
(* The environment: what a user's parameter file may hold.                  *)

\* the most lines of a user's parameter file
MaxLines == 3

SectionWords ==
    {"meta", "geometry", "initial_values", "refinement", "adaptive", "time",
     "solver", "output", "source_function", "bogus_section"}

KeyWords ==
    {"dim", "grid_name", "sizes", "function_name", "initial_global_cycles",
     "boundaries_to_refine", "max_cells", "end_time", "max_iterations",
     "normalize_tolerance", "Function expression", "bogus_field"}

ValueTexts ==
    {<<"hyper_shell">>, <<"abc">>, <<"{", "bogus", "}">>,
     <<"0", ".", "5", ",", " ", "2", ".", "5", ",", " ", "3", ".", "0">>,
     <<"-", "1", ".">>, <<"-", "1">>, <<"2">>, <<"5">>,
     <<"true">>, <<"TRUE">>,
     <<"interpolate_old_field">>,
     <<"parsed", ",", " ", "interpolate_old_field">>,
     <<>>}

UserLines ==
    {<<"subsection", " ", s>> : s \in SectionWords}
    \cup {<<"end">>}
    \cup {<<"set", " ", k, " ", "=", " ">> \o v : k \in KeyWords, v \in ValueTexts}
    \cup {<<"grid_name", " ", "hyper_shell">>}

ParameterFiles == {"", "input.prm"}

----------------------------------------------------------------------------
(* The state machine: one call of read_meta_parameters or read<dim>, then   *)
(* possibly read<dim> again on the echo the first call wrote.               *)

NoRecord == <<>>

Init ==
    /\ dim \in 1..3
    /\ ndebug \in BOOLEAN
    /\ call = [routine |-> "none", parameter_file |-> ""]
    /\ pc = "start"
    /\ prm = NewHandler
    /\ status = "none"
    /\ lineno = 0
    /\ file_ok = TRUE
    /\ parameter_log_file = "unopened"
    /\ saved_echo = [exists |-> FALSE, lines |-> <<>>]
    /\ params = NoRecord
    /\ functions = [f \in Handles |-> Unparsed]
    /\ trace = <<>>
    /\ ret = NoRecord
    /\ last = [present |-> FALSE, status |-> "none", value |-> NoRecord,
               functions |-> [f \in Handles |-> Unparsed]]

\* the locals of a fresh call: `ParameterHandler prm;` and the record
Enter_call(routine, file) ==
    /\ call' = [routine |-> routine, parameter_file |-> file]
    /\ pc' = "called"
    /\ prm' = NewHandler
    /\ params' = Uninitialized(IF routine = "read" THEN FieldType ELSE MetaFieldType)
    /\ status' = "none"
    /\ lineno' = 0
    /\ file_ok' = TRUE
    /\ parameter_log_file' = "unopened"
    /\ trace' = <<>>
    /\ ret' = NoRecord

\* the application calls read_meta_parameters(parameter_file)
CallReadMeta ==
    /\ pc = "start"
    /\ \E file \in ParameterFiles : Enter_call("read_meta_parameters", file)
    /\ UNCHANGED <<dim, ndebug, saved_echo, functions, last>>

\* the application calls read<dim>(parameter_file, ...)
CallRead ==
    /\ pc = "start"
    /\ \E file \in ParameterFiles : Enter_call("read", file)
    /\ UNCHANGED <<dim, ndebug, saved_echo, functions, last>>

\* the routine's state when it starts a run of calls
Running == [prm |-> prm, params |-> params, functions |-> functions,
            trace |-> trace, fault |-> "none", ndebug |-> ndebug]

\* a failed Assert aborts the process, a failed AssertThrow throws
Ended(fault) ==
    IF fault \in {"ExcEntryUndeclared", "ExcAlreadyAtTopLevel", "ExcValueDoesNotMatchPattern"}
    THEN "aborted" ELSE "threw"

Declared(st) ==
    /\ prm' = st.prm
    /\ trace' = st.trace
    /\ pc' = IF st.fault = "none" THEN "declared" ELSE Ended(st.fault)

\* declare<1>(prm) in read_meta_parameters, declare<dim>(prm) in read<dim>
DeclareAll ==
    /\ pc = "called"
    /\ Declared(Run(IF call.routine = "read" THEN DeclareProgram(dim)
                    ELSE MetaDeclareProgram, Running))
    /\ UNCHANGED <<dim, ndebug, parameter_log_file, call, status, lineno,
                   file_ok, saved_echo, params, functions, ret, last>>

\* if (parameter_file != "") is false: read_input is not called
SkipInput ==
    /\ pc = "declared"
    /\ call.parameter_file = ""
    /\ pc' = "parsed"
    /\ UNCHANGED <<dim, ndebug, parameter_log_file, call, prm, status, lineno,
                   file_ok, saved_echo, params, functions, trace, ret, last>>

\* prm.read_input(parameter_file) opens the user's file; when it cannot,
\* read_input reports it and returns false
OpenInput ==
    /\ pc = "declared"
    /\ call.parameter_file = "input.prm"
    /\ \E readable \in BOOLEAN :
         /\ pc' = IF readable THEN "scanning" ELSE "parsed"
         /\ status' = IF readable THEN status ELSE "failed"
    /\ UNCHANGED <<dim, ndebug, parameter_log_file, call, prm, lineno, file_ok,
                   saved_echo, params, functions, trace, ret, last>>

Scanned(r) ==
    /\ prm' = r.h
    /\ file_ok' = (file_ok /\ r.ok)

\* read_input scans the next line of the user's file
ScanLine ==
    /\ pc = "scanning"
    /\ lineno < MaxLines
    /\ \E line \in UserLines : Scanned(scan_line(prm, line))
    /\ lineno' = lineno + 1
    /\ UNCHANGED <<dim, ndebug, parameter_log_file, call, pc, status,
                   saved_echo, params, functions, trace, ret, last>>

InputRead(r) ==
    /\ prm' = r.h
    /\ status' = IF r.status THEN "ok" ELSE "failed"
    /\ file_ok' = r.status

\* the user's file ends; read_input returns, and its result is discarded
EndInput ==
    /\ pc = "scanning"
    /\ InputRead(read_input_end(prm, file_ok))
    /\ pc' = "parsed"
    /\ UNCHANGED <<dim, ndebug, parameter_log_file, call, lineno, saved_echo,
                   params, functions, trace, ret, last>>

\* prm.read_input("used_parameters.prm"): the echo of the previous call
ReadEcho ==
    /\ pc = "declared"
    /\ call.parameter_file = "used_parameters.prm"
    /\ saved_echo.exists
    /\ InputRead(ScanAll(prm, saved_echo.lines, 1, TRUE))
    /\ lineno' = Len(saved_echo.lines)
    /\ pc' = "parsed"
    /\ UNCHANGED <<dim, ndebug, parameter_log_file, call, saved_echo, params,
                   functions, trace, ret, last>>

\* read<dim> opens used_parameters.prm, asserts the stream and prints
PrintParameters ==
    /\ pc = "parsed"
    /\ call.routine = "read"
    /\ \E good \in BOOLEAN :
         /\ parameter_log_file' = IF good THEN "good" ELSE "failed"
         /\ pc' = EchoOutcome(good, ndebug)
         /\ saved_echo' = IF good
                          THEN [exists |-> TRUE, lines |-> print_parameters(prm)]
                          ELSE saved_echo
    /\ UNCHANGED <<dim, ndebug, call, prm, status, lineno, file_ok,
                   params, functions, trace, ret, last>>

Bound(st) ==
    /\ prm' = st.prm
    /\ params' = st.params
    /\ functions' = st.functions
    /\ trace' = st.trace
    /\ pc' = IF st.fault = "none" THEN "bound" ELSE Ended(st.fault)

\* the enter_subsection / get / leave_subsection part of read<dim>
Bind ==
    /\ pc = "echoed"
    /\ call.routine = "read"
    /\ Bound(Run(ReadProgram, Running))
    /\ UNCHANGED <<dim, ndebug, parameter_log_file, call, status, lineno,
                   file_ok, saved_echo, ret, last>>

\* the enter_subsection / get / leave_subsection part of read_meta_parameters
BindMeta ==
    /\ pc = "parsed"
    /\ call.routine = "read_meta_parameters"
    /\ Bound(Run(ReadMetaProgram, Running))
    /\ UNCHANGED <<dim, ndebug, parameter_log_file, call, status, lineno,
                   file_ok, saved_echo, ret, last>>

Returned(unset) ==
    \E g \in [unset -> Garbage] :
        ret' = [f \in DOMAIN params |-> IF f \in unset THEN g[f] ELSE params[f].v]

\* return params; / return mp;  A member never assigned is read as garbage.
Return ==
    /\ pc = "bound"
    /\ Returned({f \in DOMAIN params : ~params[f].init})
    /\ pc' = "returned"
    /\ UNCHANGED <<dim, ndebug, parameter_log_file, call, prm, status, lineno,
                   file_ok, saved_echo, params, functions, trace, last>>

\* the application runs read<dim> again, on the echo the call just wrote
Reload ==
    /\ pc = "returned"
    /\ call.routine = "read"
    /\ call.parameter_file # "used_parameters.prm"
    /\ last' = [present |-> TRUE, status |-> status, value |-> ret,
                functions |-> functions]
    /\ Enter_call("read", "used_parameters.prm")
    /\ UNCHANGED <<dim, ndebug, saved_echo, functions>>

Next ==
    \/ CallReadMeta
    \/ CallRead
    \/ DeclareAll
    \/ SkipInput
    \/ OpenInput
    \/ ScanLine
    \/ EndInput
    \/ ReadEcho
    \/ PrintParameters
    \/ Bind
    \/ BindMeta
    \/ Return
    \/ Reload

Spec == Init /\ [][Next]_vars

----------------------------------------------------------------------------
(* The properties.                                                          *)

\* the member of StructuredParameters a declared leaf is bound to
LeafField(e) == Append(e.path, e.name)

\* the sections owned by the three ParsedFunction objects
FunctionScopes ==
    {<<"source_function">>, <<"initial_values", "parsed_function">>,
     <<"verification", "exact_solution_function">>}

\* the unsigned int that holds the natural number n, none when n is negative
IsNatural(v, n) == n >= 0 /\ v = [hi |-> n \div 65536, lo |-> n % 65536]

\* the value a text denotes in a member of the given type
Denotes(type, v, t) ==
    CASE type = "unsigned" -> IsNatural(v, ScanInt(t).v)
      [] type = "int"      -> v = ScanInt(t).v
      [] type = "double"   -> v = ScanDouble(t).d
      [] type = "bool"     -> v = (t = <<"true">>)
      [] type = "string"   -> v = t
      [] type = "vector_double" ->
            /\ Len(v) = Len(SplitList(t))
            /\ \A j \in 1..Len(v) : v[j] = ScanDouble(SplitList(t)[j]).d
      [] type = "vector_unsigned" ->
            /\ Len(v) = Len(SplitList(t))
            /\ \A j \in 1..Len(v) : IsNatural(v[j], ScanInt(SplitList(t)[j]).v)

\* C1: when overlaying the parameter file reports an input error, the load
\* aborts: no echo is written, nothing is bound, nothing is returned.
InputErrorAbortsLoad ==
    status = "failed" =>
        /\ pc \notin {"echoed", "bound", "returned"}
        /\ parameter_log_file = "unopened"
        /\ ret = NoRecord

\* C2: read<dim> with the empty path leaves every declared leaf at its
\* default, and returns every corresponding member equal to that default
\* converted to the member's type (meta.dim included).
DefaultCompleteness ==
    (pc = "returned" /\ call.routine = "read" /\ call.parameter_file = "") =>
        \A i \in 1..Len(prm.entries) :
            /\ prm.entries[i].value = prm.entries[i].default_value
            /\ LeafField(prm.entries[i]) \in DOMAIN FieldType =>
                   Denotes(FieldType[LeafField(prm.entries[i])],
                           ret[LeafField(prm.entries[i])],
                           prm.entries[i].default_value)

\* C3 as stated: read_meta_parameters with the empty path returns the
\* dimension the application is built with.
MetaDimIsBuildDim ==
    (pc = "returned" /\ call.routine = "read_meta_parameters"
       /\ call.parameter_file = "") => ret[<<"dim">>] = ToUnsigned(dim)

\* C3 as amended: read_meta_parameters with the empty path returns
\* dim = 1, the default of the declare<1> it runs, whatever the build's <dim>.
MetaDimIsOne ==
    (pc = "returned" /\ call.routine = "read_meta_parameters"
       /\ call.parameter_file = "") => ret[<<"dim">>] = ToUnsigned(1)

\* a build for three dimensions got its Meta from read_meta_parameters("")
MetaReturnedInBuildThree ==
    /\ pc = "returned"
    /\ call.routine = "read_meta_parameters"
    /\ call.parameter_file = ""
    /\ dim = 3
    /\ ret[<<"dim">>] = ToUnsigned(1)

\* C4: every declared leaf always holds a value that satisfies its pattern.
StoreSatisfiesPatterns ==
    \A i \in 1..Len(prm.entries) :
        Match(prm.entries[i].pattern, prm.entries[i].value)

\* C5: the records read<dim> returns for the echo of a load of a valid input
\* are the records that load returned.
EchoRoundTrip ==
    (pc = "returned" /\ call.parameter_file = "used_parameters.prm"
       /\ last.present /\ last.status = "ok") =>
        /\ ret = last.value
        /\ functions = last.functions

\* C6: once used_parameters.prm could not be opened, read<dim> is over in
\* either build: it extracts nothing and returns nothing.
EchoOpenFailureIsFatal ==
    parameter_log_file = "failed" =>
        /\ pc \in {"aborted", "threw"}
        /\ ret = NoRecord
        /\ \A k \in 1..Len(trace) : trace[k].op \notin {"get", "parse_parameters"}

\* the open failed in a build with NDEBUG, and print_parameters threw
EchoOpenFailedInRelease ==
    /\ parameter_log_file = "failed"
    /\ ndebug
    /\ pc = "threw"
    /\ call.routine = "read"

\* C7: initial_values.function_name is a single selection: the leaf, and the
\* member bound to it, is always "parsed" or "interpolate_old_field".
FunctionNameIsSingleSelection ==
    /\ \A i \in 1..Len(prm.entries) :
          LeafField(prm.entries[i]) = <<"initial_values", "function_name">> =>
              prm.entries[i].value \in {<<"parsed">>, <<"interpolate_old_field">>}
    /\ (pc = "returned" /\ call.routine = "read") =>
          ret[<<"initial_values", "function_name">>]
              \in {<<"parsed">>, <<"interpolate_old_field">>}

\* C8: in every routine the leaves never outnumber the enters, the depth
\* stays within 3, every declare_entry and get is made in the section meant
\* for it, and the path is the root when the routine is through.
SectionsBalanced ==
    /\ \A k \in 1..Len(trace) :
          /\ Cardinality({j \in 1..k : trace[j].op = "leave_subsection"})
                <= Cardinality({j \in 1..k : trace[j].op = "enter_subsection"})
          /\ Len(trace[k].path) + (IF trace[k].op = "enter_subsection" THEN 1 ELSE 0) <= 3
          /\ trace[k].op \in {"declare_entry", "get"} =>
                Append(trace[k].path, trace[k].name) \in DOMAIN FieldType
          /\ trace[k].op \in {"declare_parameters", "parse_parameters"} =>
                trace[k].path \in FunctionScopes
    /\ pc \in {"declared", "bound", "returned"} => prm.subsection_path = <<>>

\* C9: the members of the structs, the leaves declare<dim> declares outside
\* the function sections, and the leaves read<dim> extracts are the same
\* names, and no member is left unassigned.
NamesAppearThreeTimes ==
    (pc = "bound" /\ call.routine = "read") =>
        /\ {LeafField(prm.entries[i]) : i \in {j \in 1..Len(prm.entries) :
                prm.entries[j].path \notin FunctionScopes}} = DOMAIN FieldType
        /\ {Append(trace[k].path, trace[k].name) :
                k \in {j \in 1..Len(trace) : trace[j].op = "get"}} = DOMAIN FieldType
        /\ \A f \in DOMAIN params : params[f].init

\* C10: a value the pattern of an integer leaf accepts is bound to its
\* unsigned int member as the number it is, without wrapping modulo 2^32
\* (stated for the members assigned from get_integer, after a load whose
\* input had no error).
IntegersBoundWithoutWrap ==
    (pc = "bound" /\ call.routine = "read" /\ status # "failed") =>
        \A i \in 1..Len(prm.entries) :
            (/\ LeafField(prm.entries[i]) \in DOMAIN FieldType
             /\ FieldType[LeafField(prm.entries[i])] = "unsigned"
             /\ params[LeafField(prm.entries[i])].init
             /\ Match(prm.entries[i].pattern, prm.entries[i].value)) =>
                Denotes(FieldType[LeafField(prm.entries[i])],
                        params[LeafField(prm.entries[i])].v,
                        prm.entries[i].value)

====
